---- MODULE Spec2Model ----
(***************************************************************************)
(* Areal / categorical allocation scripts of the EYRND population-health   *)
(* repository, as state machines over their pandas tables.                 *)
(*                                                                         *)
(*   Spec       src/M.O.F-to-DA-Projections.py: temporal disaggregation    *)
(*              with the border-DA split and the final assertion           *)
(*   SpecSplit  the same script under other border weight tables           *)
(*   SpecDis    src/MOF-Projections-to-DA-Dissagregation.py: temporal      *)
(*              disaggregation over the fixed 2021 census denominators     *)
(*   SpecMap    src/unnamed/part_000: the three DA-to-FSA approaches       *)
(*                                                                         *)
(* Tables are sequences of records (one record per row); grouped tables,   *)
(* whose row order pandas derives from the keys, are sets of records.      *)
(* Floating-point columns are exact rationals [n, d]; d = 0 stands for the *)
(* IEEE results of a division by zero: 0/0 is NaN, x/0 is infinite.        *)
(* A nullable key column holds << >> for NaN and <<v>> for a value v.      *)
(***************************************************************************)
EXTENDS Integers, Sequences, FiniteSets, TLC

VARIABLES
    pc,             \* the cell (step) the script is about to run
    DA_BORDER_DAs,  \* DA_UID -> region -> weight, in thousandths
    df_proj,        \* sheet 'Projection_cleaned'
    df_da,          \* sheet 'DA x Age x Sex'
    df_proj_agg,    \* projection aggregated to the custom age groups
    df_da_clean,    \* DA table after the border split, then with shares
    df_projected,   \* the DA-level projection
    proj_check,     \* Step 15's comparison table
    max_diff,       \* Step 15's largest absolute difference
    printed,        \* what the run has listed on its output
    exported,       \* whether the result files were written
    df_proj_filtered,               \* MOF-Projections: projection with Region_Short
    df_combined,                    \* MOF-Projections: projection x DA proportions
    region_age_sex_year_totals2,    \* MOF-Projections: Step 5's summed projections
    onmarg_df,          \* part_000: sheet 'OnMarg2021'
    da_fsa_df,          \* part_000: DA_FSA_Proportions.csv
    pop_df,             \* part_000: data.csv
    onmarg_with_pop,    \* part_000: Step 3's merge
    final_df,           \* part_000: Step 4's merge
    approach1_results,  \* part_000: dimension -> DA counts per FSA and quintile
    approach2_results,  \* part_000: dimension -> dominant-FSA population
    approach3_results,  \* part_000: dimension -> proportionally allocated population
    proportional_df     \* part_000: prop_df returned by Approach 3

\* the tables of M.O.F-to-DA-Projections.py alone
projVars == <<DA_BORDER_DAs, df_proj_agg, df_da_clean, df_projected, proj_check, max_diff>>

\* the tables of MOF-Projections-to-DA-Dissagregation.py alone
disVars == <<df_proj_filtered, df_combined, region_age_sex_year_totals2>>

\* the tables of part_000
mapVars == <<onmarg_df, da_fsa_df, pop_df, onmarg_with_pop, final_df,
             approach1_results, approach2_results, approach3_results, proportional_df>>

vars == <<pc, df_proj, df_da, printed, exported, projVars, disVars, mapVars>>

-----------------------------------------------------------------------------
(* Numbers: float64 columns as exact rationals.                            *)

Abs(x) == IF x < 0 THEN -x ELSE x

Sign(x) == IF x < 0 THEN -1 ELSE IF x > 0 THEN 1 ELSE 0

RECURSIVE GCD(_, _)
GCD(a, b) == IF b = 0 THEN a ELSE GCD(b, a % b)

Rat(n, d) ==
    IF d = 0 THEN [n |-> Sign(n), d |-> 0]
    ELSE LET g == GCD(Abs(n), Abs(d))
         IN  [n |-> (Sign(d) * n) \div g, d |-> Abs(d) \div g]

FromInt(i) == [n |-> i, d |-> 1]

NaN == [n |-> 0, d |-> 0]

IsNaN(x) == x.d = 0 /\ x.n = 0

IsFinite(x) == x.d # 0

\* sums and products reduce by common factors before they multiply;
\* inf + inf is inf, inf + (-inf) is NaN, an infinity absorbs a finite term
RAdd(x, y) ==
    IF IsNaN(x) \/ IsNaN(y) THEN NaN
    ELSE IF x.d = 0 /\ y.d = 0 THEN (IF x.n = y.n THEN x ELSE NaN)
    ELSE IF x.d = 0 THEN x
    ELSE IF y.d = 0 THEN y
    ELSE LET g == GCD(x.d, y.d)
         IN  Rat(x.n * (y.d \div g) + y.n * (x.d \div g), (x.d \div g) * y.d)

RNeg(x) == [n |-> -x.n, d |-> x.d]

RSub(x, y) == RAdd(x, RNeg(y))

RMul(x, y) ==
    IF x.d = 0 \/ y.d = 0 THEN Rat(x.n * y.n, 0)
    ELSE LET g1 == GCD(Abs(x.n), y.d)
             g2 == GCD(Abs(y.n), x.d)
             a == IF g1 = 0 THEN 1 ELSE g1
             b == IF g2 = 0 THEN 1 ELSE g2
         IN  Rat((x.n \div a) * (y.n \div b), (x.d \div b) * (y.d \div a))

\* x / y; a zero divisor gives NaN (0/0) or an infinity
RDiv(x, y) ==
    IF y.n = 0 THEN Rat(x.n * y.d, 0)
    ELSE RMul(x, [n |-> Sign(y.n) * y.d, d |-> Abs(y.n)])

RAbs(x) == [n |-> Abs(x.n), d |-> x.d]

\* x < a/b for a finite or infinite x (b > 0); any comparison with NaN is
\* false, -inf is below and +inf above every a/b
RLess(x, a, b) ==
    /\ ~IsNaN(x)
    /\ IF x.d = 0 THEN x.n < 0 ELSE x.n * b < a * x.d

\* x > y; false when either is NaN, infinities compare by their sign
RGreater(x, y) ==
    /\ ~IsNaN(x)
    /\ ~IsNaN(y)
    /\ IF x.d = 0 /\ y.d = 0 THEN x.n > y.n
       ELSE IF x.d = 0 THEN x.n > 0
       ELSE IF y.d = 0 THEN y.n < 0
       ELSE x.n * y.d > y.n * x.d

\* Series.sum(): NaN entries are skipped, the empty sum is 0
RECURSIVE SumSkipNa(_)
SumSkipNa(s) ==
    IF s = << >> THEN FromInt(0)
    ELSE IF IsNaN(Head(s)) THEN SumSkipNa(Tail(s))
    ELSE RAdd(Head(s), SumSkipNa(Tail(s)))

\* Series.max(): NaN entries are skipped, NaN when nothing is left
RECURSIVE MaxSkipNa(_)
MaxSkipNa(s) ==
    IF s = << >> THEN NaN
    ELSE LET rest == MaxSkipNa(Tail(s))
         IN  IF IsNaN(Head(s)) THEN rest
             ELSE IF IsNaN(rest) THEN Head(s)
             ELSE IF RGreater(Head(s), rest) THEN Head(s) ELSE rest

-----------------------------------------------------------------------------
(* Table helpers.                                                          *)

Null == << >>

Some(v) == <<v>>

RECURSIVE MapRows(_, _)
MapRows(F(_), s) ==
    IF s = << >> THEN << >> ELSE <<F(Head(s))>> \o MapRows(F, Tail(s))

\* the elements of a set in some order, for sums, maxima and value sets,
\* which do not depend on it
RECURSIVE SetToSeq(_)
SetToSeq(S) ==
    IF S = {} THEN << >>
    ELSE LET x == CHOOSE y \in S : TRUE IN <<x>> \o SetToSeq(S \ {x})

RECURSIVE SortedInts(_)
SortedInts(S) ==
    IF S = {} THEN << >>
    ELSE LET m == CHOOSE y \in S : \A z \in S : y <= z
         IN  <<m>> \o SortedInts(S \ {m})

Range(s) == {s[i] : i \in DOMAIN s}

\* The texts of the sheets in Python's str order (by code point): a sorted
\* groupby lists its string keys in this order.
StrOrder ==
    <<"0-17", "18-44", "45-64", "65-84", "85+", "90+", "Border", "Durham",
      "Durham Region Health Department", "F", "L1V", "L3R", "M", "Peel", "T",
      "Total", "Unknown", "W", "York", "York Region Public Health Services">>

StrRank(t) == CHOOSE i \in DOMAIN StrOrder : StrOrder[i] = t

\* tuple comparison on keys of equal length, component by component
KeyLess(a, b) ==
    \E i \in DOMAIN a : a[i] < b[i] /\ \A j \in 1..(i - 1) : a[j] = b[j]

\* the keys of a sorted groupby, smallest first
RECURSIVE SortedKeys(_)
SortedKeys(S) ==
    IF S = {} THEN << >>
    ELSE LET m == CHOOSE y \in S : \A z \in S \ {y} : KeyLess(y, z)
         IN  <<m>> \o SortedKeys(S \ {m})

-----------------------------------------------------------------------------
(* M.O.F-to-DA-Projections.py                                              *)

\* Constants (lines 30-33), weights in thousandths
BorderWeights ==
    (35190009 :> [Durham |-> 125, York |-> 875]) @@
    (35190965 :> [Durham |-> 28, York |-> 972])

BorderRegions == <<"Durham", "York">>

\* the mapping with the first band closed at 16
map_single_year_band_short(age) ==
    IF 0 <= age /\ age <= 16 THEN "0-17"
    ELSE IF 18 <= age /\ age <= 44 THEN "18-44"
    ELSE IF 45 <= age /\ age <= 64 THEN "45-64"
    ELSE IF 65 <= age /\ age <= 84 THEN "65-84"
    ELSE IF age >= 85 THEN "85+"
    ELSE "Unknown"

map_single_year_to_custom_group(age) ==
    IF 0 <= age /\ age <= 17 THEN "0-17"
    ELSE IF 18 <= age /\ age <= 44 THEN "18-44"
    ELSE IF 45 <= age /\ age <= 64 THEN "45-64"
    ELSE IF 65 <= age /\ age <= 84 THEN "65-84"
    ELSE IF age >= 85 THEN "85+"
    ELSE "Unknown"

\* A raw AgeGroup cell of the projection sheet is [kind, val, txt]: the
\* integer val ("int"), the numeral of val as text ("numstr"), or the text
\* txt that is no numeral ("label").
IntCell(v) == [kind |-> "int", val |-> v, txt |-> ""]

NumStrCell(v) == [kind |-> "numstr", val |-> v, txt |-> ""]

LabelCell(t) == [kind |-> "label", val |-> 0, txt |-> t]

\* int(x), NaN when it raises
safe_age_to_int(x) == IF x.kind \in {"int", "numstr"} THEN Some(x.val) ELSE Null

\* Step 4 on the projection: 'W' becomes 'F', then only M and F are kept
CleanSexProj(s) ==
    LET repl(r) == [r EXCEPT !.Sex = IF r.Sex = "W" THEN "F" ELSE r.Sex]
    IN  SelectSeq(MapRows(repl, s), LAMBDA r : r.Sex \in {"M", "F"})

\* Step 4 on the DA table
CleanSexDA(s) == SelectSeq(s, LAMBDA r : r.Sex \in {"M", "F"})

\* Step 5: Age_numeric, dropna, AgeGroup_custom
MapAges(s) ==
    LET num(r) == [YEAR |-> r.YEAR, REGION_NAME |-> r.REGION_NAME,
                   AgeGroup |-> r.AgeGroup, Sex |-> r.Sex, Pop |-> r.Pop,
                   Age_numeric |-> safe_age_to_int(r.AgeGroup)]
        kept == SelectSeq(MapRows(num, s), LAMBDA r : r.Age_numeric # Null)
        grp(r) == [YEAR |-> r.YEAR, REGION_NAME |-> r.REGION_NAME,
                   AgeGroup |-> r.AgeGroup, Sex |-> r.Sex, Pop |-> r.Pop,
                   Age_numeric |-> r.Age_numeric,
                   AgeGroup_custom |->
                       map_single_year_to_custom_group(r.Age_numeric[1])]
    IN  MapRows(grp, kept)

RECURSIVE SumInt(_)
SumInt(s) == IF s = << >> THEN 0 ELSE Head(s) + SumInt(Tail(s))

\* groupby([year, region, sex, custom group], as_index=False)['Pop'].sum()
AggregateProj(s) ==
    LET keys == {<<r.YEAR, r.REGION_NAME, r.Sex, r.AgeGroup_custom>> : r \in Range(s)}
        rowsOf(k) == SelectSeq(s, LAMBDA r :
                         <<r.YEAR, r.REGION_NAME, r.Sex, r.AgeGroup_custom>> = k)
    IN  {[YEAR |-> k[1], REGION_NAME |-> k[2], Sex |-> k[3],
          AgeGroup_custom |-> k[4],
          Pop |-> SumInt(MapRows(LAMBDA r : r.Pop, rowsOf(k)))] : k \in keys}

assign_region(da_uid, prefix) ==
    IF da_uid \in DOMAIN DA_BORDER_DAs THEN "Border"
    ELSE IF prefix = 3519 THEN "York"
    ELSE IF prefix = 3518 THEN "Durham"
    ELSE "Unknown"

\* str(DA_UID)[:4]: the first four digits of the identifier's decimal text,
\* all of them when it has fewer
RECURSIVE DAPrefix(_)
DAPrefix(da_uid) == IF da_uid < 10000 THEN da_uid ELSE DAPrefix(da_uid \div 10)

\* a split that keeps the first region of the membership only
SplitRowFirstRegion(row) ==
    LET w == DA_BORDER_DAs[row.DA_UID]
        frag(region) == [DA_UID |-> row.DA_UID, AgeGroup |-> row.AgeGroup,
                         Sex |-> row.Sex, DA_prefix |-> row.DA_prefix,
                         Region |-> region,
                         Pop |-> RMul(FromInt(row.Pop), Rat(w[region], 1000))]
    IN  MapRows(frag, <<Head(BorderRegions)>>)

\* a split that copies the row to every region without weighting its Pop
SplitRowUnweighted(row) ==
    LET frag(region) == [DA_UID |-> row.DA_UID, AgeGroup |-> row.AgeGroup,
                         Sex |-> row.Sex, DA_prefix |-> row.DA_prefix,
                         Region |-> region, Pop |-> FromInt(row.Pop)]
    IN  MapRows(frag, BorderRegions)

\* Step 9: one row per region of a border DA, Pop times the region's weight
SplitRow(row) ==
    LET w == DA_BORDER_DAs[row.DA_UID]
        frag(region) == [DA_UID |-> row.DA_UID, AgeGroup |-> row.AgeGroup,
                         Sex |-> row.Sex, DA_prefix |-> row.DA_prefix,
                         Region |-> region,
                         Pop |-> RMul(FromInt(row.Pop), Rat(w[region], 1000))]
    IN  MapRows(frag, BorderRegions)

RECURSIVE SplitRows(_)
SplitRows(s) ==
    IF s = << >> THEN << >> ELSE SplitRow(Head(s)) \o SplitRows(Tail(s))

\* rows that are not border rows, Pop as a float
KeepRow(row) == [DA_UID |-> row.DA_UID, AgeGroup |-> row.AgeGroup,
                 Sex |-> row.Sex, DA_prefix |-> row.DA_prefix,
                 Region |-> row.Region, Pop |-> FromInt(row.Pop)]

\* Steps 9: df_da_clean = concat(df_da_no_border, df_border_split)
SplitBorderDAs(da) ==
    MapRows(KeepRow, SelectSeq(da, LAMBDA r : r.Region # "Border"))
        \o SplitRows(SelectSeq(da, LAMBDA r : r.Region = "Border"))

\* groupby('DA_UID')['Pop'].sum() of the original and of the expanded table
OrigPopByDA(da, uid) ==
    FromInt(SumInt(MapRows(LAMBDA r : r.Pop, SelectSeq(da, LAMBDA r : r.DA_UID = uid))))

NewPopByDA(clean, uid) ==
    SumSkipNa(MapRows(LAMBDA r : r.Pop, SelectSeq(clean, LAMBDA r : r.DA_UID = uid)))

\* Step 10: (orig_pop_by_da - new_pop_by_da).abs().sum(); the subtraction
\* aligns the two Series on DA_UID and gives NaN for a DA that only one of
\* them has, which the sum skips
PopDiff(da, clean) ==
    LET origUids == {r.DA_UID : r \in Range(da)}
        newUids == {r.DA_UID : r \in Range(clean)}
        d(uid) == IF uid \in origUids /\ uid \in newUids
                  THEN RAbs(RSub(OrigPopByDA(da, uid), NewPopByDA(clean, uid)))
                  ELSE NaN
    IN  SumSkipNa(MapRows(d, SortedInts(origUids \cup newUids)))

\* a stratum total grouped by Region alone
RegionPopOfRegionOnly(clean, region, age, sex) ==
    SumSkipNa(MapRows(LAMBDA r : r.Pop,
        SelectSeq(clean, LAMBDA r : r.Region = region)))

\* Step 11: groupby(['Region', 'AgeGroup', 'Sex'])['Pop'].sum()
RegionPopOf(clean, region, age, sex) ==
    SumSkipNa(MapRows(LAMBDA r : r.Pop,
        SelectSeq(clean, LAMBDA r : r.Region = region /\ r.AgeGroup = age /\ r.Sex = sex)))

\* Step 11: merge RegionPop back and DA_Share = Pop / RegionPop
WithShares(clean) ==
    LET add(r) ==
            LET rp == RegionPopOf(clean, r.Region, r.AgeGroup, r.Sex)
            IN  [DA_UID |-> r.DA_UID, AgeGroup |-> r.AgeGroup, Sex |-> r.Sex,
                 DA_prefix |-> r.DA_prefix, Region |-> r.Region, Pop |-> r.Pop,
                 RegionPop |-> rp, DA_Share |-> RDiv(r.Pop, rp)]
    IN  MapRows(add, clean)

Strata(clean) == {<<r.Region, r.AgeGroup, r.Sex>> : r \in Range(clean)}

\* Step 12: groupby(['Region', 'AgeGroup', 'Sex'])['DA_Share'].sum()
SharesSum(clean, k) ==
    SumSkipNa(MapRows(LAMBDA r : r.DA_Share,
        SelectSeq(clean, LAMBDA r : <<r.Region, r.AgeGroup, r.Sex>> = k)))

\* np.isclose(x, 1, atol=0.001), rtol at its default 1e-5
IsCloseTo1(x) == IsFinite(x) /\ Abs(x.n - x.d) * 100000 <= 101 * x.d

region_map_proj(region) ==
    IF region = "York" THEN Some("York Region Public Health Services")
    ELSE IF region = "Durham" THEN Some("Durham Region Health Department")
    ELSE Null

\* Step 14, one year: left merge of the shares with that year's projections,
\* Projected_Pop = DA_Share * Pop_y, and the columns kept in df_year
MergeYear(clean, agg, year) ==
    LET out(r) ==
            LET m == {p \in agg : /\ p.YEAR = year
                                  /\ Some(p.REGION_NAME) = r.Region_proj_name
                                  /\ p.Sex = r.Sex
                                  /\ p.AgeGroup_custom = r.AgeGroup}
                row(yr, popy) ==
                    [DA_UID |-> r.DA_UID, Sex |-> r.Sex, AgeGroup |-> r.AgeGroup,
                     Region |-> r.Region, Region_proj_name |-> r.Region_proj_name,
                     YEAR |-> yr, Projected_Pop |-> RMul(r.DA_Share, popy)]
            IN  IF m = {} THEN <<row(Null, NaN)>>
                ELSE MapRows(LAMBDA p : row(Some(p.YEAR), FromInt(p.Pop)),
                             <<CHOOSE p \in m : TRUE>>)
        RECURSIVE all(_)
        all(s) == IF s = << >> THEN << >> ELSE out(Head(s)) \o all(Tail(s))
    IN  all(clean)

\* Step 14, the loop over years and the concatenation of its results
RECURSIVE AllYears(_, _, _)
AllYears(clean, agg, ys) ==
    IF ys = << >> THEN << >>
    ELSE MergeYear(clean, agg, Head(ys)) \o AllYears(clean, agg, Tail(ys))

\* Step 15: groupby([year, region, sex, age group])['Projected_Pop'].sum(),
\* rows with a NaN key fall out of the groups; left merge with df_proj_agg
ProjCheck(projected, agg) ==
    LET rows == SelectSeq(projected, LAMBDA r : r.YEAR # Null /\ r.Region_proj_name # Null)
        keys == {<<r.YEAR, r.Region_proj_name, r.Sex, r.AgeGroup>> : r \in Range(rows)}
        total(k) == SumSkipNa(MapRows(LAMBDA r : r.Projected_Pop,
                        SelectSeq(rows, LAMBDA r :
                            <<r.YEAR, r.Region_proj_name, r.Sex, r.AgeGroup>> = k)))
        target(k) ==
            LET m == {p \in agg : /\ Some(p.YEAR) = k[1]
                                  /\ Some(p.REGION_NAME) = k[2]
                                  /\ p.Sex = k[3]
                                  /\ p.AgeGroup_custom = k[4]}
            IN  IF m = {} THEN NaN ELSE FromInt((CHOOSE p \in m : TRUE).Pop)
    IN  {[YEAR |-> k[1][1], Region_proj_name |-> k[2][1], Sex |-> k[3],
          AgeGroup |-> k[4], Projected_Pop |-> total(k), Pop |-> target(k),
          Difference |-> RSub(total(k), target(k))] : k \in keys}

\* Step 15: proj_check['Difference'].abs().max()
MaxDiff(check) == MaxSkipNa(MapRows(LAMBDA c : RAbs(c.Difference), SetToSeq(check)))

-----------------------------------------------------------------------------
(* MOF-Projections-to-DA-Dissagregation.py                                 *)

target_age_groups == {"0-17", "18-44", "45-64", "65-84", "85+"}

\* line 57, first conjunct: the AgeGroup column of the sheet as loaded has
\* dtype object, which it has when some cell of it is a text; the Sex filter
\* of line 47 keeps the dtype
AgeGroupIsObject(raw) == \E r \in Range(raw) : r.AgeGroup.kind # "int"

\* line 57, second conjunct: the .str accessor raises AttributeError on an
\* object column that holds integers and nothing else; it accepts an empty
\* column and a column with a text in it
StrAccessorRaises(s) == s # << >> /\ \A r \in Range(s) : r.AgeGroup.kind = "int"

\* line 57 on the sheet as loaded (raw) and after the Sex filter (s):
\* "AttributeError" when .str raises, otherwise whether str.isnumeric() holds
\* of some cell: a text of digits only, which the numeral of a negative
\* number is not (an integer cell gives NaN there)
HasNumeralText(raw, s) ==
    IF AgeGroupIsObject(raw) /\ StrAccessorRaises(s) THEN "AttributeError"
    ELSE IF \E r \in Range(s) : r.AgeGroup.kind = "numstr" /\ r.AgeGroup.val >= 0
         THEN "True"
    ELSE "False"

\* lines 59-62: to_numeric(errors='coerce'), and every cell it converts is
\* replaced by its custom group
MapNumericAges(s) ==
    MapRows(LAMBDA r :
        [r EXCEPT !.AgeGroup =
            IF r.AgeGroup.kind \in {"int", "numstr"}
            THEN LabelCell(map_single_year_to_custom_group(r.AgeGroup.val))
            ELSE r.AgeGroup], s)

\* the groupby key of a projection row whose AgeGroup is a text
DisKey(r) ==
    <<r.YEAR, StrRank(r.REGION_NAME), StrRank(r.AgeGroup.txt), StrRank(r.Sex)>>

\* groupby([year, region, age group, sex], dropna=False)['Pop'].sum().reset_index():
\* one row per key, in the order of the sorted keys
DisAggregate(s) ==
    LET rowsOf(k) == SelectSeq(s, LAMBDA r : DisKey(r) = k)
        grp(k) == LET f == Head(rowsOf(k))
                  IN  [YEAR |-> f.YEAR, REGION_NAME |-> f.REGION_NAME,
                       AgeGroup |-> f.AgeGroup, Sex |-> f.Sex,
                       Pop |-> SumInt(MapRows(LAMBDA r : r.Pop, rowsOf(k)))]
    IN  MapRows(grp, SortedKeys({DisKey(r) : r \in Range(s)}))

\* line 79: df_proj['AgeGroup'].isin(target_age_groups)
InTargetAgeGroups(s) ==
    SelectSeq(s, LAMBDA r : r.AgeGroup.kind = "label" /\ r.AgeGroup.txt \in target_age_groups)

\* lines 46-86 on the sheet as loaded: df_proj at the end of the cell, or
\* the table line 47 left when line 57 stops the run
DisCleanProj(raw) ==
    LET s == CleanSexProj(raw)
        numerals == HasNumeralText(raw, s)
        mapped == IF numerals = "True" THEN DisAggregate(MapNumericAges(s)) ELSE s
    IN  IF numerals = "AttributeError" THEN s
        ELSE MapRows(LAMBDA r : [YEAR |-> r.YEAR, REGION_NAME |-> r.REGION_NAME,
                                 AgeGroup |-> r.AgeGroup.txt, Sex |-> r.Sex,
                                 Pop |-> r.Pop],
                     DisAggregate(InTargetAgeGroups(mapped)))

assign_region_by_da(da_uid) ==
    IF DAPrefix(da_uid) = 3518 THEN Some("Durham")
    ELSE IF DAPrefix(da_uid) = 3519 THEN Some("York")
    ELSE Null

\* lines 153-177
region_age_sex_2021 ==
    { <<"Durham", "0-17", "M", 64230>>,   <<"Durham", "0-17", "F", 61275>>,
      <<"Durham", "18-44", "M", 112090>>, <<"Durham", "18-44", "F", 115440>>,
      <<"Durham", "45-64", "M", 92015>>,  <<"Durham", "45-64", "F", 98190>>,
      <<"Durham", "65-84", "M", 44930>>,  <<"Durham", "65-84", "F", 52505>>,
      <<"Durham", "85+", "M", 5085>>,     <<"Durham", "85+", "F", 8560>>,
      <<"York", "0-17", "M", 137415>>,    <<"York", "0-17", "F", 129640>>,
      <<"York", "18-44", "M", 178575>>,   <<"York", "18-44", "F", 184805>>,
      <<"York", "45-64", "M", 164490>>,   <<"York", "45-64", "F", 179230>>,
      <<"York", "65-84", "M", 82165>>,    <<"York", "65-84", "F", 92990>>,
      <<"York", "85+", "M", 9590>>,       <<"York", "85+", "F", 14435>> }

\* the left merge of lines 189-193: NaN where the table has no entry
TrueRegionPop2021(region, age, sex) ==
    LET m == {t \in region_age_sex_2021 : t[1] = region /\ t[2] = age /\ t[3] = sex}
    IN  IF m = {} THEN NaN ELSE FromInt((CHOOSE t \in m : TRUE)[4])

\* lines 129-143
BaselineRegionPop(da, region, age, sex) ==
    SumInt(MapRows(LAMBDA r : r.Pop,
        SelectSeq(da, LAMBDA r : r.REGION_NAME = region /\ r.AgeGroup = age /\ r.Sex = sex)))

region_name_map(name) ==
    IF name = "Durham Region Health Department" THEN Some("Durham")
    ELSE IF name = "York Region Public Health Services" THEN Some("York")
    ELSE Null

\* lines 247-252: left merge of the projection with the DA proportions
CombineProjWithDA(proj, da) ==
    LET out(p) ==
            LET m == SelectSeq(da, LAMBDA d : /\ Some(d.Region_Short) = p.Region_Short
                                              /\ d.AgeGroup = p.AgeGroup
                                              /\ d.Sex = p.Sex)
                row(uid, prop) ==
                    [Year |-> p.Year, REGION_NAME |-> p.REGION_NAME,
                     AgeGroup |-> p.AgeGroup, Sex |-> p.Sex, Pop |-> p.Pop,
                     Region_Short |-> p.Region_Short, DA_UID |-> uid,
                     Prop_DA_in_Region_2021 |-> prop]
            IN  IF m = << >> THEN <<row(Null, NaN)>>
                ELSE MapRows(LAMBDA d : row(Some(d.DA_UID), d.Prop_DA_in_Region_2021), m)
        RECURSIVE all(_)
        all(s) == IF s = << >> THEN << >> ELSE out(Head(s)) \o all(Tail(s))
    IN  all(proj)

\* lines 278-282
SumProjectedByStratum(combined) ==
    LET keys == {<<r.Year, r.REGION_NAME, r.AgeGroup, r.Sex>> : r \in Range(combined)}
    IN  {[Year |-> k[1], REGION_NAME |-> k[2], AgeGroup |-> k[3], Sex |-> k[4],
          Projected_Pop |->
              SumSkipNa(MapRows(LAMBDA r : r.Projected_Pop,
                  SelectSeq(combined, LAMBDA r :
                      <<r.Year, r.REGION_NAME, r.AgeGroup, r.Sex>> = k)))] : k \in keys}

-----------------------------------------------------------------------------
(* part_000: the three DA-to-FSA approaches.                               *)
(* Proportion is held in thousandths; a quintile cell is nullable.         *)

dimensions ==
    <<"households_dwellings_q_DA21", "material_resources_q_DA21",
      "age_labourforce_q_DA21", "racialized_NC_pop_q_DA21">>

dimension_names ==
    <<"Residential_Instability", "Material_Deprivation", "Dependency",
      "Ethnic_Concentration">>

RECURSIVE FlatMap(_, _)
FlatMap(F(_), s) ==
    IF s = << >> THEN << >> ELSE F(Head(s)) \o FlatMap(F, Tail(s))

\* Step 3: left merge with the population, rows without a population dropped
MergeWithPop(onmarg, pop) ==
    FlatMap(LAMBDA r :
        MapRows(LAMBDA q :
            [DAUID |-> r.DAUID,
             households_dwellings_q_DA21 |-> r.households_dwellings_q_DA21,
             material_resources_q_DA21 |-> r.material_resources_q_DA21,
             age_labourforce_q_DA21 |-> r.age_labourforce_q_DA21,
             racialized_NC_pop_q_DA21 |-> r.racialized_NC_pop_q_DA21,
             DA_UID |-> q.DA_UID, Sum_of_Pop |-> q.Sum_of_Pop],
            SelectSeq(pop, LAMBDA q : q.DA_UID = r.DAUID)), onmarg)

\* da_fsa_df[['DAuid', 'DominantFSA']].drop_duplicates(): the first row of
\* every pair, in file order
DaToDominantFsa(dafsa) ==
    LET pairs == MapRows(LAMBDA r : <<r.DAuid, r.DominantFSA>>, dafsa)
        first == SortedInts({i \in DOMAIN pairs : \A j \in 1..(i - 1) : pairs[j] # pairs[i]})
    IN  MapRows(LAMBDA i : pairs[i], first)

\* Step 4: left merge with the dominant FSA, rows without one dropped
AssignDominantFsa(df, dafsa) ==
    FlatMap(LAMBDA r :
        MapRows(LAMBDA m :
            [DAUID |-> r.DAUID,
             households_dwellings_q_DA21 |-> r.households_dwellings_q_DA21,
             material_resources_q_DA21 |-> r.material_resources_q_DA21,
             age_labourforce_q_DA21 |-> r.age_labourforce_q_DA21,
             racialized_NC_pop_q_DA21 |-> r.racialized_NC_pop_q_DA21,
             DA_UID |-> r.DA_UID, Sum_of_Pop |-> r.Sum_of_Pop,
             DAuid |-> m[1], DominantFSA |-> m[2]],
            SelectSeq(DaToDominantFsa(dafsa), LAMBDA m : m[1] = r.DAUID)), df)

\* Step 4: the number of DAs without an FSA, which is all the run prints of them
UnassignedCount(df, dafsa) ==
    Len(SelectSeq(df, LAMBDA r : \A m \in Range(DaToDominantFsa(dafsa)) : m[1] # r.DAUID))

\* Approach 1, one dimension: groupby drops the rows whose quintile is NaN,
\* the totals per FSA count every row
DaCountsOf(df, dim_col) ==
    LET keys == {<<r.DominantFSA, r[dim_col][1]>> :
                    r \in {x \in Range(df) : x[dim_col] # Null}}
        count(k) == Len(SelectSeq(df, LAMBDA r :
                        r.DominantFSA = k[1] /\ r[dim_col] = Some(k[2])))
        total(fsa) == Len(SelectSeq(df, LAMBDA r : r.DominantFSA = fsa))
    IN  {[DominantFSA |-> k[1], Quintile |-> k[2], DA_Count |-> count(k),
          Total_DAs |-> total(k[1]),
          DA_Proportion |-> Rat(count(k), total(k[1])),
          DA_Percentage |-> RMul(Rat(count(k), total(k[1])), FromInt(100))] : k \in keys}

calculate_da_counts_approach(df) ==
    [i \in DOMAIN dimensions |-> DaCountsOf(df, dimensions[i])]

\* Approach 1 validation: (total_das_check == total_das_original).all()
DaCountsMatch(result) ==
    \A fsa \in {x.DominantFSA : x \in result} :
        LET rows == {x \in result : x.DominantFSA = fsa}
        IN  SumInt(MapRows(LAMBDA x : x.DA_Count, SetToSeq(rows)))
                = (CHOOSE x \in rows : TRUE).Total_DAs

\* Approach 2 computed in count mode: DAs counted where populations are summed
DominantPopOfCounts(df, dim_col) ==
    LET keys == {<<r.DominantFSA, r[dim_col][1]>> :
                    r \in {x \in Range(df) : x[dim_col] # Null}}
        pop(k) == Len(SelectSeq(df, LAMBDA r :
                      r.DominantFSA = k[1] /\ r[dim_col] = Some(k[2])))
        total(fsa) == Len(SelectSeq(df, LAMBDA r : r.DominantFSA = fsa))
    IN  {[DominantFSA |-> k[1], Quintile |-> k[2], Sum_of_Pop |-> pop(k),
          Total_Population |-> total(k[1]),
          Pop_Percentage |->
              RMul(RDiv(FromInt(pop(k)), FromInt(total(k[1]))), FromInt(100))] : k \in keys}

\* Approach 2, one dimension
DominantPopOf(df, dim_col) ==
    LET keys == {<<r.DominantFSA, r[dim_col][1]>> :
                    r \in {x \in Range(df) : x[dim_col] # Null}}
        pop(k) == SumInt(MapRows(LAMBDA r : r.Sum_of_Pop,
                      SelectSeq(df, LAMBDA r :
                          r.DominantFSA = k[1] /\ r[dim_col] = Some(k[2]))))
        total(fsa) == SumInt(MapRows(LAMBDA r : r.Sum_of_Pop,
                          SelectSeq(df, LAMBDA r : r.DominantFSA = fsa)))
    IN  {[DominantFSA |-> k[1], Quintile |-> k[2], Sum_of_Pop |-> pop(k),
          Total_Population |-> total(k[1]),
          Pop_Percentage |->
              RMul(RDiv(FromInt(pop(k)), FromInt(total(k[1]))), FromInt(100))] : k \in keys}

calculate_dominant_pop_approach(df) ==
    [i \in DOMAIN dimensions |-> DominantPopOf(df, dimensions[i])]

\* Approach 3 with every FSA row given the DA's whole population
ProportionalRowsUnweighted(onmarg, pop, dafsa) ==
    FlatMap(LAMBDA r :
        MapRows(LAMBDA f :
            [DAUID |-> r.DAUID,
             households_dwellings_q_DA21 |-> r.households_dwellings_q_DA21,
             material_resources_q_DA21 |-> r.material_resources_q_DA21,
             age_labourforce_q_DA21 |-> r.age_labourforce_q_DA21,
             racialized_NC_pop_q_DA21 |-> r.racialized_NC_pop_q_DA21,
             DA_UID |-> r.DA_UID, Sum_of_Pop |-> r.Sum_of_Pop,
             DAuid |-> f.DAuid, FSA |-> f.FSA, Proportion |-> f.Proportion,
             DominantFSA |-> f.DominantFSA,
             Allocated_Population |-> FromInt(r.Sum_of_Pop)],
            SelectSeq(dafsa, LAMBDA f : f.DAuid = r.DAUID)),
        MergeWithPop(onmarg, pop))

\* Approach 3: inner merges of ON-Marg, population and every DA-FSA row, and
\* Allocated_Population = Sum of Pop * Proportion
ProportionalRows(onmarg, pop, dafsa) ==
    FlatMap(LAMBDA r :
        MapRows(LAMBDA f :
            [DAUID |-> r.DAUID,
             households_dwellings_q_DA21 |-> r.households_dwellings_q_DA21,
             material_resources_q_DA21 |-> r.material_resources_q_DA21,
             age_labourforce_q_DA21 |-> r.age_labourforce_q_DA21,
             racialized_NC_pop_q_DA21 |-> r.racialized_NC_pop_q_DA21,
             DA_UID |-> r.DA_UID, Sum_of_Pop |-> r.Sum_of_Pop,
             DAuid |-> f.DAuid, FSA |-> f.FSA, Proportion |-> f.Proportion,
             DominantFSA |-> f.DominantFSA,
             Allocated_Population |->
                 RMul(FromInt(r.Sum_of_Pop), Rat(f.Proportion, 1000))],
            SelectSeq(dafsa, LAMBDA f : f.DAuid = r.DAUID)),
        MergeWithPop(onmarg, pop))

\* Approach 3, one dimension
ProportionalPopOf(prop, dim_col) ==
    LET keys == {<<r.FSA, r[dim_col][1]>> :
                    r \in {x \in Range(prop) : x[dim_col] # Null}}
        pop(k) == SumSkipNa(MapRows(LAMBDA r : r.Allocated_Population,
                      SelectSeq(prop, LAMBDA r : r.FSA = k[1] /\ r[dim_col] = Some(k[2]))))
        total(fsa) == SumSkipNa(MapRows(LAMBDA r : r.Allocated_Population,
                          SelectSeq(prop, LAMBDA r : r.FSA = fsa)))
    IN  {[FSA |-> k[1], Quintile |-> k[2], Allocated_Population |-> pop(k),
          Total_Population |-> total(k[1]),
          Pop_Percentage |-> RMul(RDiv(pop(k), total(k[1])), FromInt(100))] : k \in keys}

calculate_proportional_approach(prop) ==
    [i \in DOMAIN dimensions |-> ProportionalPopOf(prop, dimensions[i])]

-----------------------------------------------------------------------------
(* Bounds of the model and the value sets the tables are drawn from.       *)

MaxDARows == 2
MaxProjRows == 2

\* a York DA, a Durham DA, a border DA and a DA outside both regions
DAUIDs == {35190001, 35180001, 35190009, 35200001}
DASexes == {"M", "F"}
DAAgeGroups == {"0-17"}
DAPops == {0, 40, 60}

ProjYears == {2030, 2031}
ProjRegions == {"York Region Public Health Services", "Durham Region Health Department"}
ProjAges == {IntCell(10)}
ProjSexes == {"M"}
ProjPops == {500}

-----------------------------------------------------------------------------
(* Inputs: the two sheets, enumerated up to row order (no step depends on  *)
(* the order of the rows of a sheet).                                      *)

DARowSet == [DA_UID : DAUIDs, AgeGroup : DAAgeGroups, Sex : DASexes, Pop : DAPops]

ProjRowSet ==
    [YEAR : ProjYears, REGION_NAME : ProjRegions,
     AgeGroup : ProjAges, Sex : ProjSexes, Pop : ProjPops]

TablesOf(rowSeq, max) ==
    UNION {
        {[i \in 1..n |-> rowSeq[idx[i]]] :
            idx \in {f \in [1..n -> 1..Len(rowSeq)] :
                        \A i \in 1..(n - 1) : f[i] <= f[i + 1]}}
        : n \in 1..max}

DATables == TablesOf(SetToSeq(DARowSet), MaxDARows)

ProjTables == TablesOf(SetToSeq(ProjRowSet), MaxProjRows)

NothingPrinted ==
    [unknown_das |-> {}, share_groups |-> {}, unassigned_count |-> 0,
     a1_matches |-> << >>]

\* the tables of the scripts that are not running
ProjIdle ==
    /\ DA_BORDER_DAs = BorderWeights
    /\ df_proj_agg = {}
    /\ df_da_clean = << >>
    /\ df_projected = << >>
    /\ proj_check = {}
    /\ max_diff = NaN

DisIdle ==
    /\ df_proj_filtered = << >>
    /\ df_combined = << >>
    /\ region_age_sex_year_totals2 = {}

MapIdle ==
    /\ onmarg_df = << >>
    /\ da_fsa_df = << >>
    /\ pop_df = << >>
    /\ onmarg_with_pop = << >>
    /\ final_df = << >>
    /\ approach1_results = << >>
    /\ approach2_results = << >>
    /\ approach3_results = << >>
    /\ proportional_df = << >>

Init ==
    /\ pc = "prepare"
    /\ DA_BORDER_DAs = BorderWeights
    /\ df_proj \in ProjTables
    /\ df_da \in DATables
    /\ df_proj_agg = {}
    /\ df_da_clean = << >>
    /\ df_projected = << >>
    /\ proj_check = {}
    /\ max_diff = NaN
    /\ printed = NothingPrinted
    /\ exported = FALSE
    /\ DisIdle
    /\ MapIdle

\* Steps 2-7: the Sex columns are cleaned, the projection's ages are mapped
\* to the custom groups and the projection is aggregated
Prepare ==
    /\ pc = "prepare"
    /\ df_proj' = MapAges(CleanSexProj(df_proj))
    /\ df_da' = CleanSexDA(df_da)
    /\ df_proj_agg' = AggregateProj(df_proj')
    /\ pc' = "assign_region"
    /\ UNCHANGED <<DA_BORDER_DAs, df_da_clean, df_projected, proj_check,
                   max_diff, printed, exported, disVars, mapVars>>

\* Step 8: DA_prefix and Region, and the warning that lists Unknown DAs
AssignRegion ==
    /\ pc = "assign_region"
    /\ df_da' = MapRows(LAMBDA r :
                    [DA_UID |-> r.DA_UID, AgeGroup |-> r.AgeGroup, Sex |-> r.Sex,
                     Pop |-> r.Pop, DA_prefix |-> DAPrefix(r.DA_UID),
                     Region |-> assign_region(r.DA_UID, DAPrefix(r.DA_UID))], df_da)
    /\ printed' = [printed EXCEPT !.unknown_das =
                      {r.DA_UID : r \in {x \in Range(df_da') : x.Region = "Unknown"}}]
    /\ pc' = "split"
    /\ UNCHANGED <<DA_BORDER_DAs, df_proj, df_proj_agg, df_da_clean, df_projected,
                   proj_check, max_diff, exported, disVars, mapVars>>

\* Step 9: border DAs are replaced by their weighted fragments
SplitBorder ==
    /\ pc = "split"
    /\ df_da_clean' = SplitBorderDAs(df_da)
    /\ pc' = "verify_split"
    /\ UNCHANGED <<DA_BORDER_DAs, df_proj, df_da, df_proj_agg, df_projected,
                   proj_check, max_diff, printed, exported, disVars, mapVars>>

\* Step 10 without its assertion: the shares are built whatever pop_diff is
VerifySplitUnchecked ==
    /\ pc = "verify_split"
    /\ pc' = "shares"
    /\ UNCHANGED <<DA_BORDER_DAs, df_proj, df_da, df_proj_agg, df_da_clean,
                   df_projected, proj_check, max_diff, printed, exported, disVars, mapVars>>

\* Step 10: assert pop_diff < 1e-5
VerifySplit ==
    /\ pc = "verify_split"
    /\ pc' = IF RLess(PopDiff(df_da, df_da_clean), 1, 100000) THEN "shares" ELSE "aborted"
    /\ UNCHANGED <<DA_BORDER_DAs, df_proj, df_da, df_proj_agg, df_da_clean,
                   df_projected, proj_check, max_diff, printed, exported, disVars, mapVars>>

\* Steps 11-12: RegionPop, DA_Share, and the warning that lists the groups
\* whose shares do not sum to 1
ComputeShares ==
    /\ pc = "shares"
    /\ df_da_clean' = WithShares(df_da_clean)
    /\ printed' = [printed EXCEPT !.share_groups =
                      {k \in Strata(df_da_clean') : ~IsCloseTo1(SharesSum(df_da_clean', k))}]
    /\ pc' = "allocate"
    /\ UNCHANGED <<DA_BORDER_DAs, df_proj, df_da, df_proj_agg, df_projected,
                   proj_check, max_diff, exported, disVars, mapVars>>

\* Step 14: Region_proj_name, then one left merge per projection year;
\* pd.concat raises on an empty list of results
Allocate ==
    /\ pc = "allocate"
    /\ df_da_clean' = MapRows(LAMBDA r :
                          [DA_UID |-> r.DA_UID, AgeGroup |-> r.AgeGroup, Sex |-> r.Sex,
                           DA_prefix |-> r.DA_prefix, Region |-> r.Region, Pop |-> r.Pop,
                           RegionPop |-> r.RegionPop, DA_Share |-> r.DA_Share,
                           Region_proj_name |-> region_map_proj(r.Region)], df_da_clean)
    /\ LET ys == SortedInts({p.YEAR : p \in df_proj_agg})
       IN  IF ys = << >>
           THEN /\ pc' = "aborted"
                /\ UNCHANGED df_projected
           ELSE /\ pc' = "final_check"
                /\ df_projected' = AllYears(df_da_clean', df_proj_agg, ys)
    /\ UNCHANGED <<DA_BORDER_DAs, df_proj, df_da, df_proj_agg, proj_check,
                   max_diff, printed, exported, disVars, mapVars>>

\* Step 15: the comparison with the regional totals and assert max_diff < 1e-2
FinalCheck ==
    /\ pc = "final_check"
    /\ proj_check' = ProjCheck(df_projected, df_proj_agg)
    /\ max_diff' = MaxDiff(proj_check')
    /\ pc' = IF RLess(max_diff', 1, 100) THEN "export" ELSE "aborted"
    /\ UNCHANGED <<DA_BORDER_DAs, df_proj, df_da, df_proj_agg, df_da_clean,
                   df_projected, printed, exported, disVars, mapVars>>

\* Step 16: df_projected.to_csv
Export ==
    /\ pc = "export"
    /\ exported' = TRUE
    /\ pc' = "done"
    /\ UNCHANGED <<DA_BORDER_DAs, df_proj, df_da, df_proj_agg, df_da_clean,
                   df_projected, proj_check, max_diff, printed, disVars, mapVars>>

Next ==
    \/ Prepare
    \/ AssignRegion
    \/ SplitBorder
    \/ VerifySplit
    \/ ComputeShares
    \/ Allocate
    \/ FinalCheck
    \/ Export

Spec == Init /\ [][Next]_vars

-----------------------------------------------------------------------------
(* The split under other membership weights: the same script with its      *)
(* DA_BORDER_DAs table replaced, on one fixed projection sheet.            *)

\* the script's table, a degenerate 100%/0% table and a table whose weights
\* for the first border DA sum to 0.8
WeightTables ==
    { BorderWeights,
      (35190009 :> [Durham |-> 1000, York |-> 0]) @@
          (35190965 :> [Durham |-> 0, York |-> 1000]),
      (35190009 :> [Durham |-> 500, York |-> 300]) @@
          (35190965 :> [Durham |-> 28, York |-> 972]) }

SplitDARowSet ==
    [DA_UID : DAUIDs \cup DOMAIN BorderWeights, AgeGroup : DAAgeGroups,
     Sex : DASexes, Pop : DAPops]

SplitProjSheet ==
    <<[YEAR |-> 2030, REGION_NAME |-> "York Region Public Health Services",
       AgeGroup |-> IntCell(10), Sex |-> "M", Pop |-> 500]>>

InitSplit ==
    /\ pc = "prepare"
    /\ DA_BORDER_DAs \in WeightTables
    /\ df_proj = SplitProjSheet
    /\ df_da \in TablesOf(SetToSeq(SplitDARowSet), MaxDARows)
    /\ df_proj_agg = {}
    /\ df_da_clean = << >>
    /\ df_projected = << >>
    /\ proj_check = {}
    /\ max_diff = NaN
    /\ printed = NothingPrinted
    /\ exported = FALSE
    /\ DisIdle
    /\ MapIdle

SpecSplit == InitSplit /\ [][Next]_vars

-----------------------------------------------------------------------------
(* The same script over projection sheets whose AgeGroup and Sex cells     *)
(* vary: ages at the group boundaries, a negative age, a numeral held as   *)
(* text, a label that is no numeral, and the sex codes M, F, W and T.      *)

MaxAge == 100

AgeSheetAges ==
    {IntCell(0 - 1), IntCell(17), IntCell(18), NumStrCell(85), LabelCell("90+")}

AgeSheetRowSet ==
    [YEAR : {2030}, REGION_NAME : {"York Region Public Health Services"},
     AgeGroup : AgeSheetAges, Sex : {"M", "F", "W", "T"}, Pop : ProjPops]

AgeDASheet == <<[DA_UID |-> 35190001, AgeGroup |-> "0-17", Sex |-> "M", Pop |-> 40]>>

InitAge ==
    /\ pc = "prepare"
    /\ DA_BORDER_DAs = BorderWeights
    /\ df_proj \in TablesOf(SetToSeq(AgeSheetRowSet), MaxProjRows)
    /\ df_da = AgeDASheet
    /\ df_proj_agg = {}
    /\ df_da_clean = << >>
    /\ df_projected = << >>
    /\ proj_check = {}
    /\ max_diff = NaN
    /\ printed = NothingPrinted
    /\ exported = FALSE
    /\ DisIdle
    /\ MapIdle

SpecAge == InitAge /\ [][Next]_vars

-----------------------------------------------------------------------------
(* MOF-Projections-to-DA-Dissagregation.py as a state machine.             *)

DisProjAges == {NumStrCell(10), LabelCell("0-17")}

\* rows of single years and of groups held as text, a row with an integer
\* age, and a row of totals (Sex T), which the Sex filter removes
DisProjRowSet ==
    [YEAR : ProjYears, REGION_NAME : ProjRegions, AgeGroup : DisProjAges,
     Sex : ProjSexes, Pop : ProjPops]
    \cup [YEAR : {2030}, REGION_NAME : {"York Region Public Health Services"},
          AgeGroup : {IntCell(10)}, Sex : {"M"}, Pop : ProjPops]
    \cup [YEAR : {2030}, REGION_NAME : {"York Region Public Health Services"},
          AgeGroup : {LabelCell("Total")}, Sex : {"T"}, Pop : ProjPops]

DisDARowSet ==
    [DA_UID : {35190001, 35180001, 35200001}, AgeGroup : DAAgeGroups,
     Sex : DASexes, Pop : {40, 60}]

InitDis ==
    /\ pc = "dis_prepare"
    /\ df_proj \in TablesOf(SetToSeq(DisProjRowSet), MaxProjRows)
    /\ df_da \in TablesOf(SetToSeq(DisDARowSet), MaxDARows)
    /\ printed = NothingPrinted
    /\ exported = FALSE
    /\ ProjIdle
    /\ DisIdle
    /\ MapIdle

\* lines 26-86: Sex cleaned, ages mapped and the projection aggregated; the
\* run stops at line 57 when the .str accessor raises
DisPrepare ==
    /\ pc = "dis_prepare"
    /\ df_proj' = DisCleanProj(df_proj)
    /\ df_da' = CleanSexDA(df_da)
    /\ pc' = IF HasNumeralText(df_proj, CleanSexProj(df_proj)) = "AttributeError"
             THEN "aborted" ELSE "dis_assign_region"
    /\ UNCHANGED <<printed, exported, projVars, disVars, mapVars>>

\* lines 106-118: REGION NAME by prefix, DAs outside both regions removed
DisAssignRegion ==
    /\ pc = "dis_assign_region"
    /\ df_da' = MapRows(LAMBDA r :
                    [DA_UID |-> r.DA_UID, AgeGroup |-> r.AgeGroup, Sex |-> r.Sex,
                     Pop |-> r.Pop, REGION_NAME |-> assign_region_by_da(r.DA_UID)[1]],
                    SelectSeq(df_da, LAMBDA r : assign_region_by_da(r.DA_UID) # Null))
    /\ pc' = "dis_baseline"
    /\ UNCHANGED <<df_proj, printed, exported, projVars, disVars, mapVars>>

\* lines 128-143: Baseline_Region_Pop merged onto the DA rows
DisBaseline ==
    /\ pc = "dis_baseline"
    /\ df_da' = MapRows(LAMBDA r :
                    [DA_UID |-> r.DA_UID, AgeGroup |-> r.AgeGroup, Sex |-> r.Sex,
                     Pop |-> r.Pop, REGION_NAME |-> r.REGION_NAME,
                     Baseline_Region_Pop |->
                         BaselineRegionPop(df_da, r.REGION_NAME, r.AgeGroup, r.Sex)], df_da)
    /\ pc' = "dis_proportions"
    /\ UNCHANGED <<df_proj, printed, exported, projVars, disVars, mapVars>>

\* proportions taken over the DA sheet's own baseline total
DisProportionsByBaseline ==
    /\ pc = "dis_proportions"
    /\ df_da' = MapRows(LAMBDA r :
                    LET t == TrueRegionPop2021(r.REGION_NAME, r.AgeGroup, r.Sex)
                    IN  [DA_UID |-> r.DA_UID, AgeGroup |-> r.AgeGroup, Sex |-> r.Sex,
                         Pop |-> r.Pop, REGION_NAME |-> r.REGION_NAME,
                         Baseline_Region_Pop |-> r.Baseline_Region_Pop,
                         True_Region_Pop_2021 |-> t,
                         Prop_DA_in_Region_2021 |->
                             RDiv(FromInt(r.Pop), FromInt(r.Baseline_Region_Pop))], df_da)
    /\ pc' = "dis_merge"
    /\ UNCHANGED <<df_proj, printed, exported, projVars, disVars, mapVars>>

\* lines 151-200: True_Region_Pop_2021 merged on, Prop_DA_in_Region_2021
DisProportions ==
    /\ pc = "dis_proportions"
    /\ df_da' = MapRows(LAMBDA r :
                    LET t == TrueRegionPop2021(r.REGION_NAME, r.AgeGroup, r.Sex)
                    IN  [DA_UID |-> r.DA_UID, AgeGroup |-> r.AgeGroup, Sex |-> r.Sex,
                         Pop |-> r.Pop, REGION_NAME |-> r.REGION_NAME,
                         Baseline_Region_Pop |-> r.Baseline_Region_Pop,
                         True_Region_Pop_2021 |-> t,
                         Prop_DA_in_Region_2021 |-> RDiv(FromInt(r.Pop), t)], df_da)
    /\ pc' = "dis_merge"
    /\ UNCHANGED <<df_proj, printed, exported, projVars, disVars, mapVars>>

\* lines 215-252: Year, Region_Short on both tables, and df_combined
DisMerge ==
    /\ pc = "dis_merge"
    /\ df_proj' = MapRows(LAMBDA r :
                      [Year |-> r.YEAR, REGION_NAME |-> r.REGION_NAME,
                       AgeGroup |-> r.AgeGroup, Sex |-> r.Sex, Pop |-> r.Pop], df_proj)
    /\ df_proj_filtered' =
           MapRows(LAMBDA r :
               [Year |-> r.Year, REGION_NAME |-> r.REGION_NAME, AgeGroup |-> r.AgeGroup,
                Sex |-> r.Sex, Pop |-> r.Pop,
                Region_Short |-> region_name_map(r.REGION_NAME)],
               SelectSeq(df_proj', LAMBDA r : r.AgeGroup \in target_age_groups))
    /\ df_da' = MapRows(LAMBDA r :
                    [DA_UID |-> r.DA_UID, AgeGroup |-> r.AgeGroup, Sex |-> r.Sex,
                     Pop |-> r.Pop, REGION_NAME |-> r.REGION_NAME,
                     Baseline_Region_Pop |-> r.Baseline_Region_Pop,
                     True_Region_Pop_2021 |-> r.True_Region_Pop_2021,
                     Prop_DA_in_Region_2021 |-> r.Prop_DA_in_Region_2021,
                     Region_Short |-> r.REGION_NAME], df_da)
    /\ df_combined' = CombineProjWithDA(df_proj_filtered', df_da')
    /\ pc' = "dis_project"
    /\ UNCHANGED <<printed, exported, projVars, region_age_sex_year_totals2, mapVars>>

\* line 265: Projected_Pop = Pop * Prop_DA_in_Region_2021
DisProject ==
    /\ pc = "dis_project"
    /\ df_combined' = MapRows(LAMBDA r :
                          [Year |-> r.Year, REGION_NAME |-> r.REGION_NAME,
                           AgeGroup |-> r.AgeGroup, Sex |-> r.Sex, Pop |-> r.Pop,
                           Region_Short |-> r.Region_Short, DA_UID |-> r.DA_UID,
                           Prop_DA_in_Region_2021 |-> r.Prop_DA_in_Region_2021,
                           Projected_Pop |->
                               RMul(FromInt(r.Pop), r.Prop_DA_in_Region_2021)],
                          df_combined)
    /\ pc' = "dis_validate"
    /\ UNCHANGED <<df_proj, df_da, printed, exported, projVars, df_proj_filtered,
                   region_age_sex_year_totals2, mapVars>>

\* lines 277-282: the summed projections are computed and compared with nothing
DisValidate ==
    /\ pc = "dis_validate"
    /\ region_age_sex_year_totals2' = SumProjectedByStratum(df_combined)
    /\ pc' = "dis_export"
    /\ UNCHANGED <<df_proj, df_da, printed, exported, projVars, df_proj_filtered,
                   df_combined, mapVars>>

\* line 289: df_combined.to_csv
DisExport ==
    /\ pc = "dis_export"
    /\ exported' = TRUE
    /\ pc' = "done"
    /\ UNCHANGED <<df_proj, df_da, printed, projVars, disVars, mapVars>>

NextDis ==
    \/ DisPrepare
    \/ DisAssignRegion
    \/ DisBaseline
    \/ DisProportions
    \/ DisMerge
    \/ DisProject
    \/ DisValidate
    \/ DisExport

SpecDis == InitDis /\ [][NextDis]_vars

-----------------------------------------------------------------------------
(* part_000 as a state machine.  Its three files are built from one        *)
(* profile per DA: the DA's first quintile, its population (or none, when   *)
(* data.csv has no row for it) and its rows of DA_FSA_Proportions.csv.     *)

MaxDAs == 2

MapDAUID(i) == 35190000 + i

MapQuintiles == {Null, Some(1), Some(2)}

MapPops == {Null, Some(0), Some(40), Some(60)}

\* DA-FSA rows of one DA: wholly in one FSA, split 70/30, split with weights
\* that sum to 0.8, and absent from the file
FsaPatterns ==
    { <<[FSA |-> "L3R", Proportion |-> 1000, DominantFSA |-> "L3R"]>>,
      <<[FSA |-> "L1V", Proportion |-> 1000, DominantFSA |-> "L1V"]>>,
      <<[FSA |-> "L3R", Proportion |-> 700, DominantFSA |-> "L3R"],
        [FSA |-> "L1V", Proportion |-> 300, DominantFSA |-> "L3R"]>>,
      <<[FSA |-> "L3R", Proportion |-> 500, DominantFSA |-> "L3R"],
        [FSA |-> "L1V", Proportion |-> 300, DominantFSA |-> "L3R"]>>,
      << >> }

DAProfiles == [q : MapQuintiles, pop : MapPops, fsa : FsaPatterns]

DAProfileSeq == SetToSeq(DAProfiles)

\* the files up to the order (and so the numbering) of their DAs
ProfileIndexes(n) ==
    {f \in [1..n -> 1..Len(DAProfileSeq)] : \A i \in 1..(n - 1) : f[i] <= f[i + 1]}

OnMargOf(prof) ==
    [i \in DOMAIN prof |->
        [DAUID |-> MapDAUID(i),
         households_dwellings_q_DA21 |-> prof[i].q,
         material_resources_q_DA21 |-> Some(3),
         age_labourforce_q_DA21 |-> Some(3),
         racialized_NC_pop_q_DA21 |-> Some(3)]]

RECURSIVE PopOf(_, _)
PopOf(prof, i) ==
    IF i > Len(prof) THEN << >>
    ELSE (IF prof[i].pop = Null THEN << >>
          ELSE <<[DA_UID |-> MapDAUID(i), Sum_of_Pop |-> prof[i].pop[1]]>>)
         \o PopOf(prof, i + 1)

RECURSIVE DaFsaOf(_, _)
DaFsaOf(prof, i) ==
    IF i > Len(prof) THEN << >>
    ELSE MapRows(LAMBDA f : [DAuid |-> MapDAUID(i), FSA |-> f.FSA,
                             Proportion |-> f.Proportion,
                             DominantFSA |-> f.DominantFSA], prof[i].fsa)
         \o DaFsaOf(prof, i + 1)

InitMap ==
    /\ pc = "map_merge_pop"
    /\ \E n \in 1..MaxDAs : \E idx \in ProfileIndexes(n) :
         LET prof == [i \in 1..n |-> DAProfileSeq[idx[i]]] IN
           /\ onmarg_df = OnMargOf(prof)
           /\ pop_df = PopOf(prof, 1)
           /\ da_fsa_df = DaFsaOf(prof, 1)
    /\ onmarg_with_pop = << >>
    /\ final_df = << >>
    /\ approach1_results = << >>
    /\ approach2_results = << >>
    /\ approach3_results = << >>
    /\ proportional_df = << >>
    /\ df_proj = << >>
    /\ df_da = << >>
    /\ printed = NothingPrinted
    /\ exported = FALSE
    /\ ProjIdle
    /\ DisIdle

\* Step 3
MapMergePop ==
    /\ pc = "map_merge_pop"
    /\ onmarg_with_pop' = MergeWithPop(onmarg_df, pop_df)
    /\ pc' = "map_assign_fsa"
    /\ UNCHANGED <<df_proj, df_da, printed, exported, projVars, disVars, onmarg_df,
                   da_fsa_df, pop_df, final_df, approach1_results, approach2_results,
                   approach3_results, proportional_df>>

\* Step 4
MapAssignFsa ==
    /\ pc = "map_assign_fsa"
    /\ final_df' = AssignDominantFsa(onmarg_with_pop, da_fsa_df)
    /\ printed' = [printed EXCEPT
                      !.unassigned_count = UnassignedCount(onmarg_with_pop, da_fsa_df)]
    /\ pc' = "approach1"
    /\ UNCHANGED <<df_proj, df_da, exported, projVars, disVars, onmarg_df, da_fsa_df,
                   pop_df, onmarg_with_pop, approach1_results, approach2_results,
                   approach3_results, proportional_df>>

\* Step 6: Approach 1 and its validation
Approach1 ==
    /\ pc = "approach1"
    /\ approach1_results' = calculate_da_counts_approach(final_df)
    /\ printed' = [printed EXCEPT !.a1_matches =
                      [i \in DOMAIN dimension_names |-> DaCountsMatch(approach1_results'[i])]]
    /\ pc' = "approach2"
    /\ UNCHANGED <<df_proj, df_da, exported, projVars, disVars, onmarg_df, da_fsa_df,
                   pop_df, onmarg_with_pop, final_df, approach2_results,
                   approach3_results, proportional_df>>

\* Step 7: Approach 2
Approach2 ==
    /\ pc = "approach2"
    /\ approach2_results' = calculate_dominant_pop_approach(final_df)
    /\ pc' = "approach3"
    /\ UNCHANGED <<df_proj, df_da, printed, exported, projVars, disVars, onmarg_df,
                   da_fsa_df, pop_df, onmarg_with_pop, final_df, approach1_results,
                   approach3_results, proportional_df>>

\* Step 8: Approach 3
Approach3 ==
    /\ pc = "approach3"
    /\ proportional_df' = ProportionalRows(onmarg_df, pop_df, da_fsa_df)
    /\ approach3_results' = calculate_proportional_approach(proportional_df')
    /\ pc' = "map_export"
    /\ UNCHANGED <<df_proj, df_da, printed, exported, projVars, disVars, onmarg_df,
                   da_fsa_df, pop_df, onmarg_with_pop, final_df, approach1_results,
                   approach2_results>>

\* Step 9: the three workbooks are written
MapExport ==
    /\ pc = "map_export"
    /\ exported' = TRUE
    /\ pc' = "done"
    /\ UNCHANGED <<df_proj, df_da, printed, projVars, disVars, mapVars>>

NextMap ==
    \/ MapMergePop
    \/ MapAssignFsa
    \/ Approach1
    \/ Approach2
    \/ Approach3
    \/ MapExport

SpecMap == InitMap /\ [][NextMap]_vars

-----------------------------------------------------------------------------
(* Properties.                                                             *)

\* Step 9 has run; every stop of the script (the assertions of Steps 10 and
\* 15, the empty concatenation of Step 14) comes after it
SplitDone ==
    pc \in {"verify_split", "shares", "allocate", "final_check", "export", "done", "aborted"}

HasShares == df_da_clean # << >> /\ "DA_Share" \in DOMAIN df_da_clean[1]

WeightsSumTo1 ==
    \A uid \in DOMAIN DA_BORDER_DAs :
        DA_BORDER_DAs[uid].Durham + DA_BORDER_DAs[uid].York = 1000

\* the rows of df_projected of one (year, region, age group, sex) stratum
ProjectedRowsOf(p) ==
    SelectSeq(df_projected, LAMBDA r :
        /\ r.YEAR = Some(p.YEAR)
        /\ r.Region_proj_name = Some(p.REGION_NAME)
        /\ r.Sex = p.Sex
        /\ r.AgeGroup = p.AgeGroup_custom)

ProjectedSumOf(p) == SumSkipNa(MapRows(LAMBDA r : r.Projected_Pop, ProjectedRowsOf(p)))

\* C1: in a completed run, for every (year, region, age group, sex) stratum
\* with a supplied regional projection, the Projected_Pop of the stratum's DA
\* rows and border fragments sums to the regional projection within 1e-2.
C1_DisaggregationConservation ==
    pc = "done" =>
        \A p \in df_proj_agg :
            RLess(RAbs(RSub(ProjectedSumOf(p), FromInt(p.Pop))), 1, 100)

\* C2: after the border split, whenever every border DA's weights sum to 1,
\* each DA_UID's Pop summed over the expanded table equals its Pop summed
\* over the original table within 1e-5.
C2_SplitConservesPopPerDA ==
    (SplitDone /\ WeightsSumTo1) =>
        \A uid \in {r.DA_UID : r \in Range(df_da)} :
            RLess(RAbs(RSub(OrigPopByDA(df_da, uid), NewPopByDA(df_da_clean, uid))),
                  1, 100000)

\* a border DA with positive population has been split under a degenerate
\* 100%/0% table
C2_Witness ==
    /\ SplitDone
    /\ WeightsSumTo1
    /\ \E uid \in DOMAIN DA_BORDER_DAs : DA_BORDER_DAs[uid].York = 0
    /\ \E r \in Range(df_da) : r.Region = "Border" /\ r.Pop > 0
    /\ \E r \in Range(df_da_clean) :
           r.DA_UID \in DOMAIN DA_BORDER_DAs /\ r.Pop = FromInt(0)

\* C3: once the shares are computed, in every (Region, AgeGroup, Sex) stratum
\* whose RegionPop is positive the DA_Share values sum to 1 within 1e-3.
C3_SharesSumTo1 ==
    HasShares =>
        \A r \in Range(df_da_clean) :
            RGreater(r.RegionPop, FromInt(0)) =>
                LET sum == SharesSum(df_da_clean, <<r.Region, r.AgeGroup, r.Sex>>)
                IN  IsFinite(sum) /\ Abs(sum.n - sum.d) * 1000 <= sum.d

\* a region holds two strata with positive totals, one of them fed by the
\* fragment of a border DA
C3_Witness ==
    /\ HasShares
    /\ \E r1, r2 \in Range(df_da_clean) :
           /\ r1.Region = r2.Region
           /\ r1.Sex # r2.Sex
           /\ r1.DA_UID \in DOMAIN DA_BORDER_DAs
           /\ RGreater(r1.Pop, FromInt(0))
           /\ RGreater(r2.Pop, FromInt(0))

\* C4: every row of a stratum whose total is 0 gets the share 0 (never NaN or
\* infinite) and the stratum is flagged.
C4_ZeroTotalShareIsZero ==
    HasShares =>
        \A r \in Range(df_da_clean) :
            r.RegionPop = FromInt(0) =>
                /\ r.DA_Share = FromInt(0)
                /\ <<r.Region, r.AgeGroup, r.Sex>> \in printed.share_groups

\* C5: a temporal disaggregation run never exports a table in which the summed
\* DA-level projection of some (year, region, age group, sex) stratum differs
\* from the supplied regional projection by more than the tolerance.
C5_NoExportOnDiscrepancy ==
    exported =>
        \A p \in Range(df_proj_filtered) :
            \E t \in region_age_sex_year_totals2 :
                /\ t.Year = p.Year /\ t.REGION_NAME = p.REGION_NAME
                /\ t.AgeGroup = p.AgeGroup /\ t.Sex = p.Sex
                /\ RLess(RAbs(RSub(t.Projected_Pop, FromInt(p.Pop))), 1, 100)

\* the Proportion weights da_fsa_df holds for one DA, summed (thousandths)
ProportionSum(uid) ==
    SumInt(MapRows(LAMBDA f : f.Proportion, SelectSeq(da_fsa_df, LAMBDA f : f.DAuid = uid)))

\* C6: no allocated value is produced from a DA whose membership weights do
\* not sum to 1.
C6_MalformedWeightsAreFatal ==
    \A r \in Range(proportional_df) : ProportionSum(r.DAUID) = 1000

\* the rows Step 14 left without a projection for a year
NoProjectionFor(y, r) ==
    ~\E p \in df_proj_agg :
        /\ p.YEAR = y /\ Some(p.REGION_NAME) = r.Region_proj_name
        /\ p.Sex = r.Sex /\ p.AgeGroup_custom = r.AgeGroup

InProjCheck(y, region_proj_name, sex, age) ==
    \E c \in proj_check :
        /\ c.YEAR = y /\ Some(c.Region_proj_name) = region_proj_name
        /\ c.Sex = sex /\ c.AgeGroup = age

\* C7: in a completed run, a stratum that has DA shares but no regional
\* projection for a year is listed in the validation output, and none of its
\* rows carries an allocated value of zero.
C7_MissingTargetIsReported ==
    pc = "done" =>
        \A y \in {p.YEAR : p \in df_proj_agg} : \A r \in Range(df_da_clean) :
            NoProjectionFor(y, r) =>
                /\ InProjCheck(y, r.Region_proj_name, r.Sex, r.AgeGroup)
                /\ \A o \in Range(df_projected) :
                       (o.DA_UID = r.DA_UID /\ o.Region = r.Region /\ o.Sex = r.Sex
                            /\ o.AgeGroup = r.AgeGroup /\ o.YEAR = Null)
                           => o.Projected_Pop # FromInt(0)

\* C8: in a completed run, a stratum with a supplied projection but no
\* contributing DA row is never absent from both the allocated output and the
\* validation check.
C8_UnallocatableIsReported ==
    pc = "done" =>
        \A p \in df_proj_agg :
            \/ ProjectedRowsOf(p) # << >>
            \/ InProjCheck(p.YEAR, Some(p.REGION_NAME), p.Sex, p.AgeGroup_custom)

\* C9: a DA whose region is Unknown is listed by the run and contributes no
\* share and no row of the output.
C9_UnknownRegionExcluded ==
    pc = "done" =>
        \A r \in Range(df_da) :
            r.Region = "Unknown" =>
                /\ r.DA_UID \in printed.unknown_das
                /\ \A c \in Range(df_da_clean) : c.DA_UID # r.DA_UID
                /\ \A o \in Range(df_projected) : o.DA_UID # r.DA_UID

\* C10: for every dimension and every DominantFSA of Approach 1's result,
\* the DA_Count of the FSA's quintile rows sums to the FSA's Total_DAs.
C10_CountsSumToTotal ==
    pc \in {"approach2", "approach3", "map_export", "done"} =>
        \A i \in DOMAIN approach1_results : \A x \in approach1_results[i] :
            SumInt(MapRows(LAMBDA y : y.DA_Count,
                SetToSeq({y \in approach1_results[i] : y.DominantFSA = x.DominantFSA})))
              = x.Total_DAs

\* C11: in Approach 2 and in Approach 3, for every dimension and every FSA
\* with a positive Total_Population, the Pop_Percentage of the FSA's quintile
\* rows sums to 100.
C11_PercentagesSumTo100 ==
    /\ pc \in {"approach3", "map_export", "done"} =>
        \A i \in DOMAIN approach2_results : \A x \in approach2_results[i] :
            x.Total_Population > 0 =>
                SumSkipNa(MapRows(LAMBDA y : y.Pop_Percentage,
                    SetToSeq({y \in approach2_results[i] :
                                 y.DominantFSA = x.DominantFSA}))) = FromInt(100)
    /\ pc \in {"map_export", "done"} =>
        \A i \in DOMAIN approach3_results : \A x \in approach3_results[i] :
            RGreater(x.Total_Population, FromInt(0)) =>
                SumSkipNa(MapRows(LAMBDA y : y.Pop_Percentage,
                    SetToSeq({y \in approach3_results[i] : y.FSA = x.FSA})))
                  = FromInt(100)

\* the DAs final_df assigns to one dominant FSA
DAsOfFsa(fsa) == SelectSeq(final_df, LAMBDA r : r.DominantFSA = fsa)

UnequalPops(fsa) ==
    \E a, b \in Range(DAsOfFsa(fsa)) : a.Sum_of_Pop # b.Sum_of_Pop

\* some quintile of the FSA has a count-mode share (Approach 1) other than
\* its magnitude-mode share (Approach 2)
SharesDiffer(i, fsa) ==
    \E x \in approach1_results[i], y \in approach2_results[i] :
        /\ x.DominantFSA = fsa /\ y.DominantFSA = fsa
        /\ x.Quintile = y.Quintile
        /\ RMul(x.DA_Proportion, FromInt(100)) # y.Pop_Percentage

\* some quintile's DAs have an average population other than the average
\* over all the DAs of the FSA
MeanDiffers(i, fsa) ==
    LET das == DAsOfFsa(fsa)
        inq(q) == SelectSeq(das, LAMBDA r : r[dimensions[i]] = q)
        pop(s) == SumInt(MapRows(LAMBDA r : r.Sum_of_Pop, s))
    IN  \E q \in {r[dimensions[i]] : r \in Range(das)} \ {Null} :
            Len(inq(q)) * pop(das) # pop(inq(q)) * Len(das)

\* C12 (as stated): for every FSA whose DAs have unequal populations, the
\* Approach 1 share and the Approach 2 share differ for at least one quintile.
C12_ModesDiffer ==
    pc \in {"approach3", "map_export", "done"} =>
        \A i \in DOMAIN dimensions :
            \A fsa \in {r.DominantFSA : r \in Range(final_df)} :
                UnequalPops(fsa) => SharesDiffer(i, fsa)

\* C12 (amended): for an FSA with a positive population the two shares differ
\* for some quintile exactly when some quintile's average DA population
\* differs from the FSA's average; unequal populations inside one quintile
\* leave both shares equal.
C12_ModesDifferIffMeansDiffer ==
    pc \in {"approach3", "map_export", "done"} =>
        \A i \in DOMAIN dimensions :
            \A fsa \in {r.DominantFSA : r \in Range(final_df)} :
                SumInt(MapRows(LAMBDA r : r.Sum_of_Pop, DAsOfFsa(fsa))) > 0 =>
                    (SharesDiffer(i, fsa) <=> MeanDiffers(i, fsa))

\* an FSA holds two DAs of unequal population: in one dimension they sit in
\* different quintiles and the shares differ, in another they share a
\* quintile and the shares agree
C12_Witness ==
    /\ pc = "done"
    /\ \E fsa \in {r.DominantFSA : r \in Range(final_df)} :
           /\ UnequalPops(fsa)
           /\ \A r \in Range(DAsOfFsa(fsa)) : r.Sum_of_Pop > 0
           /\ SharesDiffer(1, fsa)
           /\ ~SharesDiffer(2, fsa)

\* the rows of the expanded table that carry one DA, age group, sex and region
FragmentsOf(r, region) ==
    SelectSeq(df_da_clean, LAMBDA c :
        /\ c.DA_UID = r.DA_UID /\ c.AgeGroup = r.AgeGroup
        /\ c.Sex = r.Sex /\ c.Region = region)

\* C13: after the split every border row of the DA sheet has, for each region
\* of its membership, one fragment with its DA_UID, AgeGroup and Sex and with
\* Pop = original Pop times the region's weight, and nothing else; every other
\* row is carried over once, with its Pop and its single region unchanged.
C13_SplitExpansionShape ==
    SplitDone =>
        /\ Len(df_da_clean)
             = Len(SelectSeq(df_da, LAMBDA r : r.Region # "Border"))
                 + 2 * Len(SelectSeq(df_da, LAMBDA r : r.Region = "Border"))
        /\ \A r \in Range(df_da) :
            IF r.DA_UID \in DOMAIN DA_BORDER_DAs
            THEN /\ \A c \in Range(df_da_clean) :
                        c.DA_UID = r.DA_UID => c.Region \in {"Durham", "York"}
                 /\ \A g \in {"Durham", "York"} :
                      LET w == Rat(DA_BORDER_DAs[r.DA_UID][g], 1000)
                          same == SelectSeq(df_da, LAMBDA o :
                                      /\ o.DA_UID = r.DA_UID /\ o.AgeGroup = r.AgeGroup
                                      /\ o.Sex = r.Sex
                                      /\ RMul(FromInt(o.Pop), w) = RMul(FromInt(r.Pop), w))
                      IN  Len(SelectSeq(FragmentsOf(r, g), LAMBDA c :
                                  c.Pop = RMul(FromInt(r.Pop), w))) = Len(same)
            ELSE /\ \A c \in Range(df_da_clean) :
                        c.DA_UID = r.DA_UID => c.Region = r.Region
                 /\ Len(SelectSeq(FragmentsOf(r, r.Region), LAMBDA c :
                            c.Pop = FromInt(r.Pop)))
                      = Len(SelectSeq(df_da, LAMBDA o : o = r))

\* a sheet with a populated border DA and a DA of one region has been split
C13_Witness ==
    /\ SplitDone
    /\ \E r \in Range(df_da) : r.Region = "Border" /\ r.Pop > 0
    /\ \E r \in Range(df_da) : r.Region \in {"York", "Durham"} /\ r.Pop > 0
    /\ \E c \in Range(df_da_clean) :
           c.DA_UID \in DOMAIN DA_BORDER_DAs /\ c.Region = "York"
               /\ RGreater(c.Pop, FromInt(0))
               /\ \A r \in Range(df_da) : c.DA_UID = r.DA_UID => RLess(c.Pop, r.Pop, 1)

\* C14: shares exist only once the split and its conservation check have
\* completed, every RegionPop is the total over the finished expanded table,
\* and projected rows exist only once every row has its share.
C14_StrictPipelineOrder ==
    /\ (df_da_clean # << >>) => SplitDone
    /\ HasShares =>
        /\ pc \in {"allocate", "final_check", "export", "done", "aborted"}
        /\ RLess(PopDiff(df_da, df_da_clean), 1, 100000)
        /\ \A r \in Range(df_da_clean) :
               /\ "DA_Share" \in DOMAIN r
               /\ r.RegionPop
                    = SumSkipNa(MapRows(LAMBDA c : c.Pop,
                          SelectSeq(df_da_clean, LAMBDA c :
                              c.Region = r.Region /\ c.AgeGroup = r.AgeGroup
                                  /\ c.Sex = r.Sex)))
    /\ (df_projected # << >>) =>
        /\ HasShares
        /\ pc \in {"final_check", "export", "done", "aborted"}
        /\ \A o \in Range(df_projected) : \E r \in Range(df_da_clean) :
               /\ o.DA_UID = r.DA_UID /\ o.Region = r.Region /\ o.Sex = r.Sex
               /\ o.AgeGroup = r.AgeGroup
               /\ o.YEAR # Null =>
                      \E p \in df_proj_agg :
                          /\ Some(p.YEAR) = o.YEAR
                          /\ Some(p.REGION_NAME) = o.Region_proj_name
                          /\ p.Sex = o.Sex /\ p.AgeGroup_custom = o.AgeGroup
                          /\ o.Projected_Pop = RMul(r.DA_Share, FromInt(p.Pop))

\* a run with a populated border DA went through split, check, shares and
\* allocation and was exported
C14_Witness ==
    /\ pc = "done"
    /\ \E r \in Range(df_da) : r.Region = "Border" /\ r.Pop > 0
    /\ \E o \in Range(df_projected) :
           o.DA_UID \in DOMAIN DA_BORDER_DAs /\ RGreater(o.Projected_Pop, FromInt(0))

\* C15: the share-building and allocation stages leave the loaded DA table as
\* it was, and the allocation stage leaves the share table (rows, columns and
\* values) as it was.
C15_StagesLeaveInputsUnchanged ==
    [][/\ pc \in {"shares", "allocate"} => df_da' = df_da
       /\ pc = "allocate" => df_da_clean' = df_da_clean]_vars

\* the DAs Approach 3 allocated, and the population pop_df gives a DA
AllocatedDAs == {r.DAUID : r \in Range(proportional_df)}

PopOfDA(uid) ==
    SumInt(MapRows(LAMBDA q : q.Sum_of_Pop, SelectSeq(pop_df, LAMBDA q : q.DA_UID = uid)))

\* Allocated_Population summed over the rows of one DA, and of one FSA
AllocatedOfDA(uid) ==
    SumSkipNa(MapRows(LAMBDA r : r.Allocated_Population,
        SelectSeq(proportional_df, LAMBDA r : r.DAUID = uid)))

AllocatedOfFsa(fsa) ==
    SumSkipNa(MapRows(LAMBDA r : r.Allocated_Population,
        SelectSeq(proportional_df, LAMBDA r : r.FSA = fsa)))

\* C16: after Approach 3, every allocated DA whose Proportion values sum to 1
\* has Allocated_Population summing to its Sum of Pop; when that is every
\* allocated DA, the FSA totals sum to the population of the allocated DAs;
\* and Total_Population of a result row is the total of its FSA.
C16_ProportionalConservesPop ==
    pc \in {"map_export", "done"} =>
        /\ \A uid \in AllocatedDAs :
               ProportionSum(uid) = 1000 => AllocatedOfDA(uid) = FromInt(PopOfDA(uid))
        /\ (\A uid \in AllocatedDAs : ProportionSum(uid) = 1000) =>
               SumSkipNa(MapRows(AllocatedOfFsa,
                   SetToSeq({r.FSA : r \in Range(proportional_df)})))
                 = FromInt(SumInt(MapRows(PopOfDA, SetToSeq(AllocatedDAs))))
        /\ \A i \in DOMAIN approach3_results : \A x \in approach3_results[i] :
               x.Total_Population = AllocatedOfFsa(x.FSA)

\* two populated DAs were allocated, one of them split 70/30 over two FSAs
C16_Witness ==
    /\ pc = "done"
    /\ Cardinality(AllocatedDAs) = 2
    /\ \A uid \in AllocatedDAs : ProportionSum(uid) = 1000 /\ PopOfDA(uid) > 0
    /\ \E r \in Range(proportional_df) :
           r.Proportion = 700 /\ r.Allocated_Population = FromInt(28)

\* the base-year population the DA sheet holds for the stratum of a projection row
BasePopOf(p) ==
    SumInt(MapRows(LAMBDA d : d.Pop,
        SelectSeq(df_da, LAMBDA d : /\ Some(d.REGION_NAME) = p.Region_Short
                                    /\ d.AgeGroup = p.AgeGroup /\ d.Sex = p.Sex)))

CensusPopOf(p) == TrueRegionPop2021(p.Region_Short[1], p.AgeGroup, p.Sex)

\* C17: in the fixed-denominator script the Projected_Pop of every (Year,
\* Region, AgeGroup, Sex) stratum sums to projection * base Pop of the stratum
\* / True_Region_Pop_2021; it equals a positive projection only when the base
\* Pop equals the census total; and no step compares the two: the only stop
\* of the run (line 57) comes before any Projected_Pop exists, and every run
\* that has its summed projections goes on to the export.
C17_FixedDenominatorSum ==
    /\ pc = "aborted" =>
        /\ df_proj_filtered = << >> /\ df_combined = << >>
        /\ region_age_sex_year_totals2 = {}
        /\ ~exported
    /\ (df_combined # << >> \/ region_age_sex_year_totals2 # {}) =>
        pc \in {"dis_project", "dis_validate", "dis_export", "done"}
    /\ pc \in {"dis_export", "done"} =>
        \A p \in Range(df_proj_filtered) :
            \E t \in region_age_sex_year_totals2 :
                /\ t.Year = p.Year /\ t.REGION_NAME = p.REGION_NAME
                /\ t.AgeGroup = p.AgeGroup /\ t.Sex = p.Sex
                /\ t.Projected_Pop
                     = RDiv(RMul(FromInt(p.Pop), FromInt(BasePopOf(p))), CensusPopOf(p))
                /\ (p.Pop > 0 /\ t.Projected_Pop = FromInt(p.Pop))
                       => FromInt(BasePopOf(p)) = CensusPopOf(p)

\* a stratum with two DAs (base Pop 40 + 60) and a projection of 500 was
\* summed to 500 * 100 / 137415 and exported
C17_Witness ==
    /\ pc = "done"
    /\ exported
    /\ \E p \in Range(df_proj_filtered) :
           /\ p.Pop = 500 /\ BasePopOf(p) = 100
           /\ Len(SelectSeq(df_combined, LAMBDA c :
                      c.Year = p.Year /\ c.REGION_NAME = p.REGION_NAME
                          /\ c.Sex = p.Sex /\ c.AgeGroup = p.AgeGroup)) = 2
           /\ \E t \in region_age_sex_year_totals2 :
                  /\ t.Year = p.Year /\ t.REGION_NAME = p.REGION_NAME
                  /\ t.Sex = p.Sex /\ t.AgeGroup = p.AgeGroup
                  /\ RLess(t.Projected_Pop, 1, 1)

\* line 117
valid_age_groups_da == {"0-17", "18-44", "45-64", "65-84", "85+"}

\* map_single_year_to_custom_group sends every age from 0 on to one of the
\* five groups and only the negative ages to Unknown
AgesMapToFiveGroups ==
    \A a \in (0 - 2)..MaxAge :
        /\ a >= 0 => map_single_year_to_custom_group(a) \in valid_age_groups_da
        /\ a < 0 => map_single_year_to_custom_group(a) = "Unknown"

\* Pop of the aggregated projection summed over the five custom groups
AggregatedPopOf(agg, y, region, sex) ==
    SumInt(MapRows(LAMBDA p : p.Pop,
        SetToSeq({p \in agg : /\ p.YEAR = y /\ p.REGION_NAME = region /\ p.Sex = sex
                              /\ p.AgeGroup_custom \in valid_age_groups_da})))

\* Pop of the sheet's rows of one year, region and sex
SheetPopOf(sheet, y, region, sex) ==
    SumInt(MapRows(LAMBDA r : r.Pop,
        SelectSeq(sheet, LAMBDA r : r.YEAR = y /\ r.REGION_NAME = region /\ r.Sex = sex)))

\* Pop of the aggregated projection summed over all its groups, Unknown too
AggregatedAllPopOf(agg, y, region, sex) ==
    SumInt(MapRows(LAMBDA p : p.Pop,
        SetToSeq({p \in agg : p.YEAR = y /\ p.REGION_NAME = region /\ p.Sex = sex})))

\* the same over the rows Steps 4 and 5 keep: Sex W counted as F, and an
\* AgeGroup that int() converts, whatever its sign
KeptSheetPopOf(sheet, y, region, sex) ==
    SumInt(MapRows(LAMBDA r : r.Pop,
        SelectSeq(MapAges(CleanSexProj(sheet)), LAMBDA r :
            r.YEAR = y /\ r.REGION_NAME = region /\ r.Sex = sex)))

\* the kept rows whose age is 0 or more
NonNegativeAgePopOf(sheet, y, region, sex) ==
    SumInt(MapRows(LAMBDA r : r.Pop,
        SelectSeq(MapAges(CleanSexProj(sheet)), LAMBDA r :
            /\ r.YEAR = y /\ r.REGION_NAME = region /\ r.Sex = sex
            /\ r.Age_numeric[1] >= 0)))

\* C18 (as stated): every age maps to one of the five groups (Unknown only
\* when negative), and for every year, region and sex M or F the aggregated
\* projection summed over the five groups equals the Pop of all the sheet's
\* rows of that year, region and sex.
C18_AggregationConservesProjection ==
    [][pc = "prepare" =>
          /\ AgesMapToFiveGroups
          /\ \A r \in Range(df_proj) : \A sex \in {"M", "F"} :
                 AggregatedPopOf(df_proj_agg', r.YEAR, r.REGION_NAME, sex)
                   = SheetPopOf(df_proj, r.YEAR, r.REGION_NAME, sex)]_vars

\* C18 (amended): the same with the sheet's rows restricted to those the
\* script keeps: rows whose AgeGroup is no integer are dropped and Sex W is
\* counted as F; the five groups hold the Pop of the kept rows of age 0 or
\* more, and with the group Unknown, where the negative ages go, the
\* aggregated projection holds the Pop of all the kept rows.
C18_AggregationConservesKeptRows ==
    [][pc = "prepare" =>
          /\ AgesMapToFiveGroups
          /\ \A r \in Range(df_proj) : \A sex \in {"M", "F"} :
                 /\ AggregatedPopOf(df_proj_agg', r.YEAR, r.REGION_NAME, sex)
                      = NonNegativeAgePopOf(df_proj, r.YEAR, r.REGION_NAME, sex)
                 /\ AggregatedAllPopOf(df_proj_agg', r.YEAR, r.REGION_NAME, sex)
                      = KeptSheetPopOf(df_proj, r.YEAR, r.REGION_NAME, sex)]_vars

\* two sheet rows, one with Sex W and a numeral held as text, were
\* aggregated into the F rows of two different custom groups
C18_Witness ==
    /\ pc = "assign_region"
    /\ \E a, b \in Range(df_proj) :
           /\ a.AgeGroup.kind = "numstr" /\ b.AgeGroup.kind = "int"
           /\ a.AgeGroup_custom = "85+" /\ b.AgeGroup_custom = "0-17"
    /\ \E p, q \in df_proj_agg :
           /\ p.Sex = "F" /\ q.Sex = "F"
           /\ p.AgeGroup_custom = "85+" /\ q.AgeGroup_custom = "0-17"
           /\ AggregatedPopOf(df_proj_agg, p.YEAR, p.REGION_NAME, "F") = p.Pop + q.Pop

====
